---- MODULE Spec2Model ----
(***************************************************************************)
(* Presence-tracking engine of the online-count server (src/server.cpp):   *)
(* class OnlineManager with its session table, online-user set, cached     *)
(* count and the background clean-up thread.                               *)
(*                                                                         *)
(* Every public method of OnlineManager takes mtx_ with a lock_guard for   *)
(* its whole body, so each method is one atomic action here.  The steady   *)
(* clock is a variable counted in milliseconds.                            *)
(***************************************************************************)
EXTENDS Integers, FiniteSets, Sequences, TLC

\* ---------------------------------------------------------------- bounds
\* Clock step of the request-level specification (Spec), in ms.
CoarseStepMs == 15000
\* Clock step of the timing specification (SpecFine), in ms.
FineStepMs == 500
\* sleep_for blocks for AT LEAST its duration; the model lets the clean-up
\* thread oversleep by at most this many ms.
MaxOversleepMs == 500
\* The clock stops here.
MaxTimeMs == 100000
\* dis_ draws from DisMin .. DisMin + MaxRandomSpan (a prefix of its range).
MaxRandomSpan == 1

\* ------------------------------------------------------ program constants
ExpirySeconds == 60
SleepSeconds == 30
DisMin == 1000
DisMax == 9999
MsPerSecond == 1000

\* ------------------------------------------------------------ input sets
UserIds == {"alice", "bob"}
\* Wall-clock millisecond stamps seen by generateSessionId.
WallClockStamps == {1}
RandomNums == {r \in DisMin..(DisMin + MaxRandomSpan) : r <= DisMax}

VARIABLES sessions, online_users, total_online, now, wake_at, last,
          response, mtx, thr, running, released_count

vars == <<sessions, online_users, total_online, now, wake_at, last,
          response, mtx, thr, running, released_count>>

\* The threads of the process: the clean-up thread, the request handlers of
\* the HTTP server's pool, and the main thread that owns the OnlineManager.
Handlers == {"h1", "h2"}
Threads == {"sweeper", "main"} \cup Handlers

\* No response was sent by the step just taken.
NoResponse == [code |-> 1, message |-> "none"]

\* "sess_" + to_string(timestamp) + "_" + to_string(random_num): the two
\* numbers are separated by "_", so the string determines both of them.
generateSessionId(timestamp, random_num) == <<"sess", timestamp, random_num>>

SessionIds == {generateSessionId(t, r) : t \in WallClockStamps, r \in RandomNums}

\* duration_cast<seconds>(now - last_active).count(): truncating division.
DurationSeconds(t_now, last_active) == (t_now - last_active) \div MsPerSecond

SessionInfo(session_id, user_id, last_active) ==
    [session_id |-> session_id, user_id |-> user_id, last_active |-> last_active]

\* sessions_.erase(it)
EraseSession(sess, session_id) ==
    [x \in (DOMAIN sess) \ {session_id} |-> sess[x]]

\* The state of a freshly constructed OnlineManager; the clean-up thread has
\* been started and is about to run its first pass.
Init ==
    /\ sessions = <<>>
    /\ online_users = {}
    /\ total_online = 0
    /\ now = 0
    /\ wake_at = 0
    /\ last = [op |-> "init", arg |-> 0, ret |-> 0]
    /\ response = NoResponse
    /\ mtx = "free"
    /\ thr = [t \in Threads |->
                IF t = "sweeper" THEN [pc |-> "check"]
                ELSE IF t = "main" THEN [pc |-> "serving"]
                ELSE [pc |-> "idle"]]
    /\ running = TRUE
    /\ released_count = 0

\* std::string userLogin(const std::string& user_id)
userLogin(user_id, timestamp, random_num) ==
    LET session_id == generateSessionId(timestamp, random_num) IN
    /\ online_users' = online_users \cup {user_id}
    /\ sessions' = [x \in (DOMAIN sessions) \cup {session_id} |->
                       IF x = session_id
                       THEN SessionInfo(session_id, user_id, now)
                       ELSE sessions[x]]
    /\ total_online' = Cardinality(online_users')
    /\ last' = [op |-> "login", arg |-> user_id, ret |-> session_id]
    /\ UNCHANGED <<now, wake_at>>

\* A plausible slip: sessions_[session_id].last_active = now, which inserts a
\* default-constructed SessionInfo when the id is unknown.
userHeartbeat_Subscript(session_id) ==
    /\ sessions' = [x \in (DOMAIN sessions) \cup {session_id} |->
                       IF x \in DOMAIN sessions
                       THEN IF x = session_id
                            THEN [sessions[x] EXCEPT !.last_active = now]
                            ELSE sessions[x]
                       ELSE SessionInfo("", "", now)]
    /\ last' = [op |-> "heartbeat", arg |-> session_id, ret |-> TRUE]
    /\ UNCHANGED <<online_users, total_online, now, wake_at>>

\* bool userHeartbeat(const std::string& session_id)
userHeartbeat(session_id) ==
    /\ IF session_id \in DOMAIN sessions
       THEN /\ sessions' = [sessions EXCEPT ![session_id].last_active = now]
            /\ last' = [op |-> "heartbeat", arg |-> session_id, ret |-> TRUE]
       ELSE /\ sessions' = sessions
            /\ last' = [op |-> "heartbeat", arg |-> session_id, ret |-> FALSE]
    /\ UNCHANGED <<online_users, total_online, now, wake_at>>

\* A plausible slip: the cached count is kept by decrementing it on every
\* logout call instead of inside the found branch.
LogoutResult_Decrement(sess, users, total, session_id) ==
    IF session_id \in DOMAIN sess
    THEN <<EraseSession(sess, session_id), users \ {sess[session_id].user_id},
           total - 1>>
    ELSE <<sess, users, total - 1>>

\* The body of userLogout on the state <<sessions_, online_users_,
\* total_online_>>: find, erase the user-id, erase the session, set the count.
LogoutResult(sess, users, total, session_id) ==
    IF session_id \in DOMAIN sess
    THEN LET users2 == users \ {sess[session_id].user_id} IN
         <<EraseSession(sess, session_id), users2, Cardinality(users2)>>
    ELSE <<sess, users, total>>

\* void userLogout(const std::string& session_id)
userLogout(session_id) ==
    LET res == LogoutResult(sessions, online_users, total_online, session_id) IN
    /\ sessions' = res[1]
    /\ online_users' = res[2]
    /\ total_online' = res[3]
    /\ last' = [op |-> "logout", arg |-> session_id, ret |-> 0]
    /\ UNCHANGED <<now, wake_at>>

\* int getOnlineCount() const
getOnlineCount ==
    /\ last' = [op |-> "count", arg |-> 0, ret |-> total_online]
    /\ UNCHANGED <<sessions, online_users, total_online, now, wake_at>>

\* The orders in which an unordered_set can be iterated.
Orderings(S) ==
    {f \in [1..Cardinality(S) -> S] : \A x \in S : \E i \in DOMAIN f : f[i] = x}

\* std::vector<std::string> getOnlineUsers() const
getOnlineUsers ==
    /\ \E users \in Orderings(online_users) :
          last' = [op |-> "users", arg |-> 0, ret |-> users]
    /\ UNCHANGED <<sessions, online_users, total_online, now, wake_at>>

\* A plausible slip: a look-up that also touches the session it finds.
isValidSession_Touching(session_id) ==
    /\ sessions' = IF session_id \in DOMAIN sessions
                   THEN [sessions EXCEPT ![session_id].last_active = now]
                   ELSE sessions
    /\ last' = [op |-> "validate", arg |-> session_id,
                 ret |-> (session_id \in DOMAIN sessions)]
    /\ UNCHANGED <<online_users, total_online, now, wake_at>>

\* bool isValidSession(const std::string& session_id) const
isValidSession(session_id) ==
    /\ last' = [op |-> "validate", arg |-> session_id,
                 ret |-> (session_id \in DOMAIN sessions)]
    /\ UNCHANGED <<sessions, online_users, total_online, now, wake_at>>

\* A plausible slip: a session idle for exactly 60 s already counts as expired.
Expired_AtTtl(t_now, last_active) ==
    DurationSeconds(t_now, last_active) >= ExpirySeconds

\* if (duration.count() > 60): no heartbeat for more than 60 s.
Expired(t_now, last_active) ==
    DurationSeconds(t_now, last_active) > ExpirySeconds

\* The for loop of cleanupExpiredSessions: todo is what the iterator has not
\* visited yet; the result is the pair <<sessions_, online_users_>>.
RECURSIVE CleanupLoop(_, _, _, _)
CleanupLoop(todo, sess, users, t_now) ==
    IF todo = {} THEN <<sess, users>>
    ELSE LET it == CHOOSE x \in todo : TRUE IN
         IF Expired(t_now, sess[it].last_active)
         THEN CleanupLoop(todo \ {it}, EraseSession(sess, it),
                          users \ {sess[it].user_id}, t_now)
         ELSE CleanupLoop(todo \ {it}, sess, users, t_now)

\* void cleanupExpiredSessions(), followed by the start of the thread's
\* sleep_for(30 s): the pass runs when the previous sleep has ended.
cleanupExpiredSessions ==
    LET res == CleanupLoop(DOMAIN sessions, sessions, online_users, now) IN
    /\ now >= wake_at
    /\ sessions' = res[1]
    /\ online_users' = res[2]
    /\ total_online' = Cardinality(online_users')
    /\ wake_at' = now + SleepSeconds * MsPerSecond
    /\ last' = [op |-> "sweep", arg |-> 0, ret |-> 0]
    /\ UNCHANGED now

\* The steady clock advances by d ms.  The sleeping clean-up thread wakes no
\* later than MaxOversleepMs after its sleep has ended.
Tick(d) ==
    /\ now + d <= MaxTimeMs
    /\ now + d <= wake_at + MaxOversleepMs
    /\ now' = now + d
    /\ last' = [op |-> "tick", arg |-> 0, ret |-> 0]
    /\ UNCHANGED <<sessions, online_users, total_online, wake_at>>

\* ------------------------------------------------- the request handlers
\* Session-ids are modelled as tuples, so the empty string is the empty tuple.
EmptySessionId == <<>>

\* A request whose argument is missing or empty is answered without calling
\* the OnlineManager.
Rejected(field) ==
    /\ response' = [code |-> -1, message |-> field \o " is required"]
    /\ last' = [op |-> "reject", arg |-> 0, ret |-> 0]
    /\ UNCHANGED <<sessions, online_users, total_online, now, wake_at>>

\* A plausible slip: the handler without its user_id.empty() check.
loginHandler_NoCheck(user_id, timestamp, random_num) ==
    /\ userLogin(user_id, timestamp, random_num)
    /\ response' = [code |-> 0, message |-> "login success",
                     data |-> [session_id |-> last'.ret,
                               online_count |-> total_online']]

\* POST /api/online/login
loginHandler(user_id, timestamp, random_num) ==
    IF user_id = ""
    THEN Rejected("user_id")
    ELSE /\ userLogin(user_id, timestamp, random_num)
         /\ response' = [code |-> 0, message |-> "login success",
                          data |-> [session_id |-> last'.ret,
                                    online_count |-> total_online']]

\* A plausible slip: an unknown session answered like a known one.
heartbeatHandler_AlwaysOk(session_id) ==
    IF session_id = EmptySessionId
    THEN Rejected("session_id")
    ELSE /\ userHeartbeat(session_id)
         /\ response' = [code |-> 0, message |-> "heartbeat success",
                          data |-> [online_count |-> total_online']]

\* POST /api/online/heartbeat
heartbeatHandler(session_id) ==
    IF session_id = EmptySessionId
    THEN Rejected("session_id")
    ELSE /\ userHeartbeat(session_id)
         /\ response' = [code |-> IF last'.ret THEN 0 ELSE -1,
                          message |-> IF last'.ret THEN "heartbeat success"
                                                   ELSE "invalid session",
                          data |-> [online_count |-> total_online']]

\* POST /api/online/logout
logoutHandler(session_id) ==
    IF session_id = EmptySessionId
    THEN Rejected("session_id")
    ELSE /\ userLogout(session_id)
         /\ response' = [code |-> 0, message |-> "logout success"]

\* POST /api/online/validate
validateHandler(session_id) ==
    IF session_id = EmptySessionId
    THEN Rejected("session_id")
    ELSE /\ isValidSession(session_id)
         /\ response' = [code |-> 0, message |-> "success",
                          data |-> [valid |-> last'.ret]]

\* GET /api/online/count
countHandler ==
    /\ getOnlineCount
    /\ response' = [code |-> 0, message |-> "success",
                     data |-> [online_count |-> last'.ret]]

\* GET /api/online/users
usersHandler ==
    /\ getOnlineUsers
    /\ response' = [code |-> 0, message |-> "success",
                     data |-> [users |-> last'.ret, count |-> Len(last'.ret)]]

\* A step of Spec or SpecFine runs a whole handler or a whole clean-up pass:
\* the lock is taken and released inside the step.
Atomic ==
    /\ released_count' = total_online'
    /\ UNCHANGED <<mtx, thr, running>>

\* The user_id and session_id fields a request body can carry; "" is also
\* what body.value(field, "") gives when the field is missing.
RequestUserIds == UserIds \cup {""}
RequestSessionIds == SessionIds \cup {EmptySessionId}

Login ==
    \E u \in RequestUserIds, t \in WallClockStamps, r \in RandomNums :
        loginHandler(u, t, r) /\ Atomic
Heartbeat == \E s \in RequestSessionIds : heartbeatHandler(s) /\ Atomic
Logout == \E s \in RequestSessionIds : logoutHandler(s) /\ Atomic
Validate == \E s \in RequestSessionIds : validateHandler(s) /\ Atomic
Count == countHandler /\ Atomic
Users == usersHandler /\ Atomic
Sweep == cleanupExpiredSessions /\ response' = NoResponse /\ Atomic
CoarseTick == Tick(CoarseStepMs) /\ response' = NoResponse /\ Atomic

Next ==
    \/ Login
    \/ Heartbeat
    \/ Logout
    \/ Count
    \/ Users
    \/ Validate
    \/ Sweep
    \/ CoarseTick

Spec == Init /\ [][Next]_vars

\* The timing specification: one client, the clock in steps of FineStepMs.
FineUserIds == {"alice"}
FineRandomNums == {DisMin}
FineSessionIds == {generateSessionId(t, r) : t \in WallClockStamps, r \in FineRandomNums}

FineLogin ==
    \E u \in FineUserIds, t \in WallClockStamps, r \in FineRandomNums :
        loginHandler(u, t, r) /\ Atomic
FineHeartbeat == \E s \in FineSessionIds : heartbeatHandler(s) /\ Atomic
FineLogout == \E s \in FineSessionIds : logoutHandler(s) /\ Atomic
FineValidate == \E s \in FineSessionIds : validateHandler(s) /\ Atomic
FineTick == Tick(FineStepMs) /\ response' = NoResponse /\ Atomic

NextFine ==
    \/ FineLogin
    \/ FineHeartbeat
    \/ FineLogout
    \/ FineValidate
    \/ Sweep
    \/ FineTick

SpecFine == Init /\ [][NextFine]_vars

\* ------------------------------------------- the threads, step by step
\* SpecConc takes the lock_guard apart: a thread waits for mtx_, holds it
\* for the body of the method, and releases it when the guard goes out of
\* scope.  thr[t].pc is where thread t is.

\* Clock step of SpecConc, in ms.
ConcStepMs == 30000

ConcUserIds == {"alice"}

\* last and response after a step that calls no method and sends no response.
Silent ==
    /\ last' = [op |-> "step", arg |-> 0, ret |-> 0]
    /\ response' = NoResponse

\* Thread t moves to the state rec; the other threads stay where they are.
Goto(t, rec) == thr' = [thr EXCEPT ![t] = rec]

\* lock_guard constructor: blocks until mtx_ is free.
Acquire(t, rec) ==
    /\ mtx = "free"
    /\ mtx' = t
    /\ Goto(t, rec)
    /\ Silent
    /\ UNCHANGED <<sessions, online_users, total_online, now, wake_at,
                   running, released_count>>

\* What the calls of getOnlineCount in progress have seen released so far:
\* bookkeeping for the claims, not state of the program.
NoteRelease(t, rec) ==
    thr' = [x \in Threads |->
               IF x = t THEN rec
               ELSE IF thr[x].pc \in {"count_called", "count_loaded"}
                    THEN [thr[x] EXCEPT !.seen = @ \cup {total_online}]
                    ELSE thr[x]]

\* lock_guard destructor of thread t.
Release(t, rec) ==
    /\ mtx = t
    /\ mtx' = "free"
    /\ released_count' = total_online
    /\ NoteRelease(t, rec)

\* Handler h takes a login request for user u: userLogin is called.
LoginCall(h, u) ==
    /\ thr["main"].pc = "serving"
    /\ thr[h].pc = "idle"
    /\ Goto(h, [pc |-> "login_wait", user_id |-> u])
    /\ Silent
    /\ UNCHANGED <<sessions, online_users, total_online, now, wake_at,
                   mtx, running, released_count>>

LoginLock(h) ==
    /\ thr[h].pc = "login_wait"
    /\ Acquire(h, [pc |-> "login_body", user_id |-> thr[h].user_id])

\* Lines 62-71 of userLogin, under the lock.
LoginBody(h, timestamp, random_num) ==
    /\ thr[h].pc = "login_body"
    /\ mtx = h
    /\ userLogin(thr[h].user_id, timestamp, random_num)
    /\ Goto(h, [pc |-> "login_unlock", sid |-> last'.ret])
    /\ response' = NoResponse
    /\ UNCHANGED <<mtx, running, released_count>>

LoginUnlock(h) ==
    /\ thr[h].pc = "login_unlock"
    /\ Release(h, [pc |-> "login_count", sid |-> thr[h].sid])
    /\ Silent
    /\ UNCHANGED <<sessions, online_users, total_online, now, wake_at, running>>

\* The login handler builds its response: getOnlineCount() without the lock.
LoginCount(h) ==
    /\ thr[h].pc = "login_count"
    /\ getOnlineCount
    /\ response' = [code |-> 0, message |-> "login success",
                     data |-> [session_id |-> thr[h].sid,
                               online_count |-> last'.ret]]
    /\ Goto(h, [pc |-> "idle"])
    /\ UNCHANGED <<mtx, running, released_count>>

\* Handler h takes a logout request for session s: userLogout is called.
LogoutCall(h, s) ==
    /\ thr["main"].pc = "serving"
    /\ thr[h].pc = "idle"
    /\ Goto(h, [pc |-> "logout_wait", session_id |-> s])
    /\ Silent
    /\ UNCHANGED <<sessions, online_users, total_online, now, wake_at,
                   mtx, running, released_count>>

LogoutLock(h) ==
    /\ thr[h].pc = "logout_wait"
    /\ Acquire(h, [pc |-> "logout_body", session_id |-> thr[h].session_id])

\* Lines 92-97 of userLogout, under the lock.
LogoutBody(h) ==
    /\ thr[h].pc = "logout_body"
    /\ mtx = h
    /\ userLogout(thr[h].session_id)
    /\ Goto(h, [pc |-> "logout_unlock"])
    /\ response' = NoResponse
    /\ UNCHANGED <<mtx, running, released_count>>

\* userLogout returns and the handler answers.
LogoutUnlock(h) ==
    /\ thr[h].pc = "logout_unlock"
    /\ Release(h, [pc |-> "idle"])
    /\ last' = [op |-> "step", arg |-> 0, ret |-> 0]
    /\ response' = [code |-> 0, message |-> "logout success"]
    /\ UNCHANGED <<sessions, online_users, total_online, now, wake_at, running>>

\* Handler h takes GET /api/online/count: getOnlineCount is called.
CountCall(h) ==
    /\ thr["main"].pc = "serving"
    /\ thr[h].pc = "idle"
    /\ Goto(h, [pc |-> "count_called", seen |-> {released_count}])
    /\ Silent
    /\ UNCHANGED <<sessions, online_users, total_online, now, wake_at,
                   mtx, running, released_count>>

\* total_online_.load(), without the lock.
CountLoad(h) ==
    /\ thr[h].pc = "count_called"
    /\ getOnlineCount
    /\ Goto(h, [pc |-> "count_loaded", seen |-> thr[h].seen, val |-> last'.ret])
    /\ response' = NoResponse
    /\ UNCHANGED <<mtx, running, released_count>>

\* getOnlineCount returns and the handler answers.
CountReturn(h) ==
    /\ thr[h].pc = "count_loaded"
    /\ Goto(h, [pc |-> "idle"])
    /\ last' = [op |-> "step", arg |-> 0, ret |-> 0]
    /\ response' = [code |-> 0, message |-> "success",
                     data |-> [online_count |-> thr[h].val]]
    /\ UNCHANGED <<sessions, online_users, total_online, now, wake_at,
                   mtx, running, released_count>>

\* running_ is a plain bool that the destructor writes and the clean-up
\* thread reads with no synchronisation: a data race.  The read gives the
\* value in memory or the value the thread saw before (true).
RunningReads == {running, TRUE}

\* while (running_)
SweeperCheck ==
    /\ thr["sweeper"].pc = "check"
    /\ \E seen_running \in RunningReads :
          Goto("sweeper", [pc |-> IF seen_running THEN "lock_wait" ELSE "exited"])
    /\ Silent
    /\ UNCHANGED <<sessions, online_users, total_online, now, wake_at,
                   mtx, running, released_count>>

\* Lines 129-130: take the lock, read the clock.
SweeperLock ==
    /\ thr["sweeper"].pc = "lock_wait"
    /\ Acquire("sweeper", [pc |-> "scan", todo |-> DOMAIN sessions, t_now |-> now])

\* A plausible slip: the cached count is refreshed after every erase.
ScanResult_StoreEach(sess, users, total, it, t_now) ==
    IF Expired(t_now, sess[it].last_active)
    THEN <<EraseSession(sess, it), users \ {sess[it].user_id},
           Cardinality(users \ {sess[it].user_id})>>
    ELSE <<sess, users, total>>

\* One iteration of the for loop (lines 132-143) at the session it.
ScanResult(sess, users, total, it, t_now) ==
    IF Expired(t_now, sess[it].last_active)
    THEN <<EraseSession(sess, it), users \ {sess[it].user_id}, total>>
    ELSE <<sess, users, total>>

SweeperScan ==
    /\ thr["sweeper"].pc = "scan"
    /\ mtx = "sweeper"
    /\ \E it \in thr["sweeper"].todo :
          LET res == ScanResult(sessions, online_users, total_online, it,
                                thr["sweeper"].t_now) IN
          /\ sessions' = res[1]
          /\ online_users' = res[2]
          /\ total_online' = res[3]
          /\ Goto("sweeper", [thr["sweeper"] EXCEPT !.todo = @ \ {it}])
    /\ Silent
    /\ UNCHANGED <<now, wake_at, mtx, running, released_count>>

\* Line 145, after the loop.
SweeperStore ==
    /\ thr["sweeper"].pc = "scan"
    /\ mtx = "sweeper"
    /\ thr["sweeper"].todo = {}
    /\ total_online' = Cardinality(online_users)
    /\ Goto("sweeper", [pc |-> "unlock"])
    /\ Silent
    /\ UNCHANGED <<sessions, online_users, now, wake_at, mtx, running,
                   released_count>>

\* A plausible slip: the lock_guard lives in the thread's loop, so the thread
\* goes to sleep with mtx_ still locked.
SweeperUnlock_KeepLock ==
    /\ thr["sweeper"].pc = "unlock"
    /\ Goto("sweeper", [pc |-> "sleeping"])
    /\ wake_at' = now + SleepSeconds * MsPerSecond
    /\ Silent
    /\ UNCHANGED <<sessions, online_users, total_online, now, running,
                   mtx, released_count>>

\* cleanupExpiredSessions returns; sleep_for(30 s) begins.
SweeperUnlock ==
    /\ thr["sweeper"].pc = "unlock"
    /\ Release("sweeper", [pc |-> "sleeping"])
    /\ wake_at' = now + SleepSeconds * MsPerSecond
    /\ Silent
    /\ UNCHANGED <<sessions, online_users, total_online, now, running>>

\* sleep_for returns.
SweeperWake ==
    /\ thr["sweeper"].pc = "sleeping"
    /\ now >= wake_at
    /\ Goto("sweeper", [pc |-> "check"])
    /\ Silent
    /\ UNCHANGED <<sessions, online_users, total_online, now, wake_at,
                   mtx, running, released_count>>

\* ~OnlineManager, line 51, once server.listen has returned.
Stop ==
    /\ thr["main"].pc = "serving"
    /\ \A h \in Handlers : thr[h].pc = "idle"
    /\ running' = FALSE
    /\ Goto("main", [pc |-> "joining"])
    /\ Silent
    /\ UNCHANGED <<sessions, online_users, total_online, now, wake_at,
                   mtx, released_count>>

\* cleanup_thread_.join() returns; the members are destroyed after it.
Join ==
    /\ thr["main"].pc = "joining"
    /\ thr["sweeper"].pc = "exited"
    /\ Goto("main", [pc |-> "destroyed"])
    /\ Silent
    /\ UNCHANGED <<sessions, online_users, total_online, now, wake_at,
                   mtx, running, released_count>>

\* The clock advances while the clean-up thread sleeps.
ConcTick ==
    /\ thr["sweeper"].pc = "sleeping"
    /\ Tick(ConcStepMs)
    /\ response' = NoResponse
    /\ UNCHANGED <<mtx, thr, running, released_count>>

HandlerStep(h) ==
    \/ \E u \in ConcUserIds : LoginCall(h, u)
    \/ LoginLock(h)
    \/ \E t \in WallClockStamps, r \in RandomNums : LoginBody(h, t, r)
    \/ LoginUnlock(h)
    \/ LoginCount(h)
    \/ \E s \in SessionIds : LogoutCall(h, s)
    \/ LogoutLock(h)
    \/ LogoutBody(h)
    \/ LogoutUnlock(h)
    \/ CountCall(h)
    \/ CountLoad(h)
    \/ CountReturn(h)

SweeperStep ==
    \/ SweeperCheck
    \/ SweeperLock
    \/ SweeperScan
    \/ SweeperStore
    \/ SweeperUnlock
    \/ SweeperWake

NextConc ==
    \/ \E h \in Handlers : HandlerStep(h)
    \/ SweeperStep
    \/ Stop
    \/ Join
    \/ ConcTick

SpecConc == Init /\ [][NextConc]_vars

\* The same threads with one user and one session id, for the claims about
\* waiting for the lock.
FairHandlerStep(h) ==
    \/ \E u \in FineUserIds : LoginCall(h, u)
    \/ LoginLock(h)
    \/ \E t \in WallClockStamps, r \in FineRandomNums : LoginBody(h, t, r)
    \/ LoginUnlock(h)
    \/ LoginCount(h)
    \/ \E s \in FineSessionIds : LogoutCall(h, s)
    \/ LogoutLock(h)
    \/ LogoutBody(h)
    \/ LogoutUnlock(h)
    \/ CountCall(h)
    \/ CountLoad(h)
    \/ CountReturn(h)

NextConcFair ==
    \/ \E h \in Handlers : FairHandlerStep(h)
    \/ SweeperStep
    \/ Stop
    \/ Join
    \/ ConcTick

\* A thread that holds mtx_ runs on to the end of its critical section, and
\* a thread blocked in lock() gets the mutex if it is free again and again.
FairConc ==
    /\ \A h \in Handlers :
          /\ SF_vars(LoginLock(h) \/ LogoutLock(h))
          /\ WF_vars((\E t \in WallClockStamps, r \in FineRandomNums :
                         LoginBody(h, t, r))
                     \/ LoginUnlock(h) \/ LogoutBody(h) \/ LogoutUnlock(h))
    /\ WF_vars(SweeperScan \/ SweeperStore \/ SweeperUnlock)

SpecConcFair == Init /\ [][NextConcFair]_vars /\ FairConc

TypeOK ==
    /\ DOMAIN sessions \subseteq SessionIds
    /\ online_users \subseteq UserIds
    /\ total_online \in 0..Cardinality(UserIds)
    /\ now \in 0..MaxTimeMs

\* ------------------------------------------------------------ vocabulary
\* The distinct user-ids referenced by the sessions in the table.
LiveUsers == {sessions[s].user_id : s \in DOMAIN sessions}

\* The sessions of user u.
SessionsOf(sess, u) == {s \in DOMAIN sess : sess[s].user_id = u}

IdleMs(s) == now - sessions[s].last_active

TtlMs == ExpirySeconds * MsPerSecond
SweepPeriodMs == SleepSeconds * MsPerSecond

\* ----------------------------------------------------------------- claims

\* C1: at every lock-release point the cached online count equals the number
\* of distinct user-ids referenced by the sessions in the session table.
C1_CountEqualsDistinctLiveUsers ==
    total_online = Cardinality(LiveUsers)

\* C2: logout of an existing session removes it; the user leaves the online
\* set and the count drops by one only if no other live session references
\* the same user, and otherwise the online set and the count are unchanged.
C2_LogoutKeepsUserWithOtherSession ==
    [][\A s \in SessionIds :
         (userLogout(s) /\ s \in DOMAIN sessions) =>
            LET u == sessions[s].user_id IN
            /\ s \notin DOMAIN sessions'
            /\ IF SessionsOf(sessions, u) # {s}
               THEN /\ online_users' = online_users
                    /\ total_online' = total_online
               ELSE /\ online_users' = online_users \ {u}
                    /\ total_online' = total_online - 1]_vars

\* C3: list-users returns exactly the distinct user-ids of the session table:
\* every user with a live session is listed, nobody twice, nothing else.
C3_ListUsersIsExactlyLiveUsers ==
    last.op = "users" =>
        /\ {last.ret[i] : i \in DOMAIN last.ret} = LiveUsers
        /\ \A i, j \in DOMAIN last.ret : last.ret[i] = last.ret[j] => i = j

\* C4: every user-id in the online-user set is the user-id of at least one
\* session in the session table.
C4_OnlineUserHasLiveSession ==
    \A u \in online_users : SessionsOf(sessions, u) # {}

\* C5: login(u) adds one new session for u with last-active = now, under a
\* session-id that no live session has, and the count rises by one exactly
\* when u had no live session before the call.
C5_LoginAddsOneSessionCountsUserOnce ==
    [][\A u \in UserIds, t \in WallClockStamps, r \in RandomNums :
         userLogin(u, t, r) =>
            LET sid == last'.ret IN
            /\ sid \notin DOMAIN sessions
            /\ DOMAIN sessions' = DOMAIN sessions \cup {sid}
            /\ sessions'[sid].user_id = u
            /\ sessions'[sid].last_active = now
            /\ total_online' = total_online + (IF u \in LiveUsers THEN 0 ELSE 1)]_vars

\* C6: the session-id returned by login is never the id of a live session,
\* so a login grows the table by exactly one and overwrites no session.
C6_LoginNeverReusesLiveSessionId ==
    [][\A u \in UserIds, t \in WallClockStamps, r \in RandomNums :
         userLogin(u, t, r) =>
            /\ generateSessionId(t, r) \notin DOMAIN sessions
            /\ Cardinality(DOMAIN sessions') = Cardinality(DOMAIN sessions) + 1
            /\ \A x \in DOMAIN sessions : sessions'[x] = sessions[x]]_vars

\* C7: no session stays in the table with an idle interval strictly greater
\* than TTL plus one sweep period (90 s).
C7_IdleAtMostTtlPlusSweepPeriod ==
    \A s \in DOMAIN sessions : IdleMs(s) <= TtlMs + SweepPeriodMs

\* C8: no premature eviction.  A login leaves its session in the table with
\* last-active = now; last-active never moves backwards; and a session leaves
\* the table only by logout of that session or when it has been idle for
\* more than TTL (60 s).  So a session that is not logged out is valid at
\* every time less than TTL after its login returned.
C8_NoPrematureEviction ==
    [][/\ \A u \in UserIds, t \in WallClockStamps, r \in RandomNums :
            userLogin(u, t, r) =>
               /\ last'.ret \in DOMAIN sessions'
               /\ sessions'[last'.ret].last_active = now'
       /\ \A s \in DOMAIN sessions :
            IF s \in DOMAIN sessions'
            THEN sessions'[s].last_active >= sessions[s].last_active
            ELSE userLogout(s) \/ IdleMs(s) > TtlMs]_vars

\* A sweep has just passed over a session idle for exactly TTL and left it in
\* the table, although the user's other session is gone.
C8_Witness ==
    /\ last.op = "sweep"
    /\ \E s \in DOMAIN sessions :
          /\ IdleMs(s) = TtlMs
          /\ sessions[s].user_id \notin online_users

\* C9: heartbeat(s) returns true iff s is in the session table at the call;
\* when true it sets the last-active of s to now and changes nothing else;
\* when false it changes nothing and creates no session.
C9_HeartbeatRefreshesOnlyKnownSession ==
    [][\A s \in SessionIds :
         userHeartbeat(s) =>
            /\ last'.ret = (s \in DOMAIN sessions)
            /\ DOMAIN sessions' = DOMAIN sessions
            /\ online_users' = online_users
            /\ total_online' = total_online
            /\ \A x \in DOMAIN sessions :
                  sessions'[x] = IF x = s
                                 THEN [sessions[x] EXCEPT !.last_active = now]
                                 ELSE sessions[x]]_vars

\* A heartbeat has succeeded on a session at a time when the session would
\* otherwise be at the TTL, and the session's last-active is now.
C9_Witness ==
    /\ last.op = "heartbeat"
    /\ last.ret = TRUE
    /\ now >= TtlMs
    /\ last.arg \in DOMAIN sessions
    /\ sessions[last.arg].last_active = now

\* C10: validate(s) returns true iff s is in the session table and leaves the
\* session table (the last-active of s included), the online-user set and
\* the cached count unchanged.
C10_ValidateIsReadOnly ==
    [][\A s \in SessionIds :
         isValidSession(s) =>
            /\ last'.ret = (s \in DOMAIN sessions)
            /\ sessions' = sessions
            /\ online_users' = online_users
            /\ total_online' = total_online]_vars

\* validate has returned true for a session that has been idle for the whole
\* TTL: its last-active is still that old.
C10_Witness ==
    /\ last.op = "validate"
    /\ last.ret = TRUE
    /\ last.arg \in DOMAIN sessions
    /\ IdleMs(last.arg) >= TtlMs

\* C11: logout is idempotent: in every reachable state and for every
\* session-id, logout run twice leaves the session table, the online-user
\* set and the cached count as logout run once leaves them.
C11_LogoutIdempotent ==
    \A s \in SessionIds :
        LET once == LogoutResult(sessions, online_users, total_online, s)
            twice == LogoutResult(once[1], once[2], once[3], s)
        IN twice = once

\* A logout has just been answered with success for a session-id that is not
\* in the table, while another session is.
C11_Witness ==
    /\ last.op = "logout"
    /\ last.arg \notin DOMAIN sessions
    /\ sessions # <<>>
    /\ response = [code |-> 0, message |-> "logout success"]

\* What C12 says of a request with session-id s that is not in the table.
SoftMiss(s) ==
    /\ heartbeatHandler(s) =>
          /\ response'.code = -1
          /\ response'.message = "invalid session"
          /\ UNCHANGED <<sessions, online_users, total_online>>
    /\ validateHandler(s) =>
          /\ response' = [code |-> 0, message |-> "success",
                          data |-> [valid |-> FALSE]]
          /\ UNCHANGED <<sessions, online_users, total_online>>
    /\ logoutHandler(s) =>
          /\ response'.code = 0
          /\ UNCHANGED <<sessions, online_users, total_online>>

\* C12 as stated: for ANY session-id that is not in the session table (the
\* empty one included) heartbeat answers code -1 "invalid session", validate
\* answers valid = false and logout answers code 0, the state unchanged.
C12_AnyUnknownIdIsSoftMiss ==
    [][\A s \in RequestSessionIds : s \notin DOMAIN sessions => SoftMiss(s)]_vars

\* C12 as amended: the same for every NON-EMPTY session-id that is not in the
\* session table.
C12_NonEmptyUnknownIdIsSoftMiss ==
    [][\A s \in SessionIds : s \notin DOMAIN sessions => SoftMiss(s)]_vars

\* A heartbeat for an unknown id has been answered "invalid session" while
\* another session is in the table.
C12_Witness ==
    /\ last.op = "heartbeat"
    /\ last.ret = FALSE
    /\ sessions # <<>>
    /\ response.code = -1
    /\ response.message = "invalid session"

\* C13: login with an empty user-id is answered code -1 "user_id is
\* required"; no session is inserted, the count is unchanged and the empty
\* string never enters the online-user set.
C13_EmptyUserIdRejected ==
    [][/\ \A t \in WallClockStamps, r \in RandomNums :
            loginHandler("", t, r) =>
               /\ response' = [code |-> -1, message |-> "user_id is required"]
               /\ UNCHANGED <<sessions, online_users, total_online>>
       /\ "" \notin online_users'
       /\ \A x \in DOMAIN sessions' : sessions'[x].user_id # ""]_vars

\* A login has just been rejected for its empty user-id while sessions exist.
C13_Witness ==
    /\ response = [code |-> -1, message |-> "user_id is required"]
    /\ last.op = "reject"
    /\ sessions # <<>>
    /\ total_online > 0

\* C14: a sweep takes a user-id out of the online set only if it leaves no
\* session for that user-id.
C14_SweepKeepsUserWithLiveSession ==
    [][cleanupExpiredSessions =>
          \A u \in online_users :
              SessionsOf(sessions', u) # {} => u \in online_users']_vars

\* C15: a sweep removes exactly the sessions idle for strictly more than TTL
\* and keeps every other session untouched.
C15_SweepRemovesExactlyIdleOverTtl ==
    [][cleanupExpiredSessions =>
          sessions' = [s \in {x \in DOMAIN sessions : IdleMs(x) <= TtlMs} |->
                          sessions[s]]]_vars

\* The state <<sessions_, online_users_, total_online_>> after a clean-up pass
\* at the present time over the given state.
SweepResult(sess, users) ==
    LET res == CleanupLoop(DOMAIN sess, sess, users, now) IN
    <<res[1], res[2], Cardinality(res[2])>>

\* C16: when logout(s) races with a sweep that would evict s, both orders end
\* in the same state: s is absent and the online set and the cached count are
\* those of the remaining sessions.
C16_LogoutSweepRaceEndsConsistent ==
    \A s \in DOMAIN sessions :
        Expired(now, sessions[s].last_active) =>
            LET lo == LogoutResult(sessions, online_users, total_online, s)
                logoutFirst == SweepResult(lo[1], lo[2])
                sw == SweepResult(sessions, online_users)
                sweepFirst == LogoutResult(sw[1], sw[2], sw[3], s)
                remaining == {logoutFirst[1][x].user_id : x \in DOMAIN logoutFirst[1]}
            IN /\ logoutFirst = sweepFirst
               /\ s \notin DOMAIN logoutFirst[1]
               /\ logoutFirst[2] = remaining
               /\ logoutFirst[3] = Cardinality(remaining)

\* The places where a thread reads or writes sessions_ and online_users_.
BodyPcs == {"login_body", "logout_body", "scan"}

\* The places where a thread has finished its body and is about to release.
UnlockPcs == {"login_unlock", "logout_unlock", "unlock"}

\* C17 as stated: count() returns a value that the cached count had at a
\* lock-release point between the call's start and its return (the value at
\* the latest release before the call included).
C17_CountReturnsReleasedValue ==
    [][\A h \in Handlers :
         CountReturn(h) => thr[h].val \in thr[h].seen]_vars

\* C17 as amended: the table is touched only by the holder of the lock, and
\* the cached count is stored once per critical section, as its last
\* statement: it differs from its value at the latest release only while the
\* holder is about to release, and while the table is partly updated it
\* still has the value of the latest release.
C17_CountStoredOnceBeforeRelease ==
    /\ \A t \in Threads : thr[t].pc \in BodyPcs => mtx = t
    /\ total_online # released_count =>
          /\ mtx # "free"
          /\ thr[mtx].pc \in UnlockPcs
    /\ total_online # Cardinality(online_users) =>
          /\ thr["sweeper"].pc = "scan"
          /\ total_online = released_count

\* count() has read the cached count in the middle of a sweep that has
\* already erased a user, and has read the value of the latest release.
C17_Witness ==
    /\ thr["sweeper"].pc = "scan"
    /\ total_online # Cardinality(online_users)
    /\ \E h \in Handlers :
          /\ thr[h].pc = "count_loaded"
          /\ thr[h].val = released_count
          /\ last.op = "count"

C20_LoginResponseCountsAtLeastOne ==
    response.message = "login success" => response.data.online_count >= 1
====
